---- MODULE Spec2Model ----
(***************************************************************************)
(* Model of src/src/sort-lines.ts (the VS Code "Sort lines" extension).    *)
(*                                                                         *)
(* A Line is a sequence of character codes (UTF-16 code units; every       *)
(* character used here is in the Basic Multilingual Plane, so code units   *)
(* and code points coincide).  A Document is a sequence of Lines; the      *)
(* zero-based line number n of the editor is position n + 1 here.          *)
(***************************************************************************)
EXTENDS Integers, Sequences, FiniteSets

(***************************************************************************)
(* Bounds of the model.                                                    *)
(***************************************************************************)
MaxLines == 3       \* lines of the Document of the editor
MaxSeqLen == 4      \* length of the arrays handed to the pure transformers
MaxKeyLen == 3      \* length of the Lines made of 'a' and '='
MaxPad == 30        \* padding between '<' and the last character of a Line

(***************************************************************************)
(* Characters the code names.                                              *)
(***************************************************************************)
NewLine == 10           \* '\n' of lines.join('\n')
LessThanSign == 60      \* '<' of indexOf('<')
EqualsSign == 61        \* '=' of /(.*)=/
TimestampWidth == 30    \* a.substring(firstIndex, firstIndex+30)
DateWidth == 10         \* a.substring(firstIndex, firstIndex+10)

(***************************************************************************)
(* Strings.                                                                *)
(***************************************************************************)
Range(s) == {s[j] : j \in DOMAIN s}

Min(S) == CHOOSE x \in S : \A y \in S : x <= y

\* String.prototype.trim strips WhiteSpace and LineTerminator characters:
\* TAB, LF, VT, FF, CR, SPACE, NBSP.
IsWhiteSpace(c) == c \in {9, 10, 11, 12, 13, 32, 160}

\* s.trim() === ''
TrimIsEmpty(s) == \A j \in DOMAIN s : IsWhiteSpace(s[j])

\* The position where two sequences of numbers first differ, or 0: a
\* sequence that is a proper prefix of the other differs from it at the
\* position after its end.
FirstDiff(x, y) ==
  LET n == IF Len(x) < Len(y) THEN Len(x) ELSE Len(y)
      d == {j \in 1..n : x[j] # y[j]}
  IN IF d # {} THEN Min(d)
     ELSE IF Len(x) = Len(y) THEN 0 ELSE n + 1

\* a < b on strings: lexicographic on code units, a proper prefix first.
StrLess(x, y) ==
  LET d == FirstDiff(x, y)
  IN /\ d # 0
     /\ \/ d > Len(x)
        \/ d <= Len(y) /\ x[d] < y[d]

\* The three-way comparison of two sequences of numbers.
SeqCompare(x, y) == IF x = y THEN 0 ELSE IF StrLess(x, y) THEN -1 ELSE 1

\* a.indexOf(c), zero-based, -1 when absent.
IndexOf(s, c) ==
  LET at == {j \in DOMAIN s : s[j] = c}
  IN IF at = {} THEN -1 ELSE Min(at) - 1

\* a.substring(from, to) with zero-based from <= to, to clamped to length.
Substring(s, from, to) ==
  LET e == IF to > Len(s) THEN Len(s) ELSE to
  IN SubSeq(s, from + 1, e)

(***************************************************************************)
(* Comparators.                                                            *)
(***************************************************************************)
\* Array.prototype.sort with no comparator: ascending code-unit order.
defaultCompare(a, b) == SeqCompare(a, b)

reverseCompare(a, b) ==
  IF a = b THEN 0
  ELSE IF StrLess(a, b) THEN 1 ELSE -1

\* Collation of the host (Intl, root locale) on the characters used here:
\* white space, then the symbols '<' and '=', then digits, then letters;
\* the two cases of a letter share a primary weight.
IsDigit(c) == c \in 48..57
IsUpper(c) == c \in 65..90
ToLower(c) == IF IsUpper(c) THEN c + 32 ELSE c
PrimaryWeight(c) ==
  CASE IsWhiteSpace(c) -> 1
    [] c = LessThanSign -> 2
    [] c = EqualsSign -> 3
    [] IsDigit(c) -> 10 + (c - 48)
    [] OTHER -> 100 + ToLower(c)

PrimaryKey(s) == [j \in DOMAIN s |-> PrimaryWeight(s[j])]

\* a.localeCompare(b, undefined, {sensitivity: 'base'})
caseInsensitiveCompare(a, b) == SeqCompare(PrimaryKey(a), PrimaryKey(b))

\* Array.from(a).length
CodePointLength(s) == Len(s)

lineLengthCompare(a, b) ==
  LET aLength == CodePointLength(a)
      bLength == CodePointLength(b)
  IN IF aLength = bLength THEN 0
     ELSE IF aLength > bLength THEN 1 ELSE -1

lineLengthReverseCompare(a, b) == lineLengthCompare(a, b) * (-1)

\* line.match(/(.*)=/): <<>> for null, otherwise <<whole match, group 1>>.
\* The greedy (.*) reaches the last '=' of the line (a Line holds no line
\* terminator for '.' to stop at).
RegexMatch(line) ==
  LET at == {j \in DOMAIN line : line[j] = EqualsSign}
      lastEq == CHOOSE j \in at : \A m \in at : m <= j
  IN IF at = {} THEN <<>>
     ELSE <<SubSeq(line, 1, lastEq), SubSeq(line, 1, lastEq - 1)>>

getVariableCharacters(line) ==
  LET match == RegexMatch(line)
  IN IF match = <<>> THEN line
     ELSE LET last == match[Len(match)]
          IN IF last = <<>> THEN line   \* !last: the empty string is falsy
             ELSE last

variableLengthCompare(a, b) ==
  lineLengthCompare(getVariableCharacters(a), getVariableCharacters(b))

variableLengthReverseCompare(a, b) == variableLengthCompare(a, b) * (-1)

\* The key of a Line under numeric collation: a run of digits weighs as
\* its value, any other character as its primary weight.
RECURSIVE DigitRunEnd(_, _)
DigitRunEnd(s, j) ==
  IF j < Len(s) /\ IsDigit(s[j + 1]) THEN DigitRunEnd(s, j + 1) ELSE j

RECURSIVE DigitRunValue(_, _, _)
DigitRunValue(s, from, to) ==
  IF to < from THEN 0
  ELSE 10 * DigitRunValue(s, from, to - 1) + (s[to] - 48)

RECURSIVE NumericKey(_, _)
NumericKey(s, j) ==
  IF j > Len(s) THEN <<>>
  ELSE IF IsDigit(s[j])
       THEN LET e == DigitRunEnd(s, j)
            IN <<10, DigitRunValue(s, j, e)>> \o NumericKey(s, e + 1)
       ELSE <<PrimaryWeight(s[j]), 0>> \o NumericKey(s, j + 1)

\* new Intl.Collator(undefined, {numeric: true}).compare(a, b): the
\* numeric keys decide; equal keys are told apart by case, lower case first.
naturalCompare(a, b) ==
  LET p == SeqCompare(NumericKey(a, 1), NumericKey(b, 1))
      d == FirstDiff(a, b)
  IN IF p # 0 THEN p
     ELSE IF Len(a) # Len(b) \/ d = 0 THEN 0
     ELSE IF IsUpper(b[d]) THEN -1 ELSE 1

\* The body shared by timestampCompare and dateCompare, by window width.
WindowCompare(a, b, width) ==
  LET firstIndex == IndexOf(a, LessThanSign)
      secondIndex == IndexOf(b, LessThanSign)
  IN IF firstIndex < 0 \/ secondIndex < 0 THEN 0
     ELSE LET findFirst == Substring(a, firstIndex, firstIndex + width)
              findSecond == Substring(b, secondIndex, secondIndex + width)
          IN IF findFirst = findSecond THEN 0
             ELSE IF StrLess(findFirst, findSecond) THEN -1 ELSE 1

timestampCompare(a, b) == WindowCompare(a, b, TimestampWidth)

\* Variant: the window width left as copied from timestampCompare.
dateCompareCopied(a, b) == WindowCompare(a, b, TimestampWidth)

dateCompare(a, b) == WindowCompare(a, b, DateWidth)

Algorithms ==
  {"default", "reverseCompare", "caseInsensitiveCompare", "lineLengthCompare",
   "lineLengthReverseCompare", "variableLengthCompare",
   "variableLengthReverseCompare", "naturalCompare", "timestampCompare",
   "dateCompare"}

\* algorithm(a, b) for the comparator a sorter was made with.
Compare(algorithm, a, b) ==
  CASE algorithm = "default" -> defaultCompare(a, b)
    [] algorithm = "reverseCompare" -> reverseCompare(a, b)
    [] algorithm = "caseInsensitiveCompare" -> caseInsensitiveCompare(a, b)
    [] algorithm = "lineLengthCompare" -> lineLengthCompare(a, b)
    [] algorithm = "lineLengthReverseCompare" -> lineLengthReverseCompare(a, b)
    [] algorithm = "variableLengthCompare" -> variableLengthCompare(a, b)
    [] algorithm = "variableLengthReverseCompare" ->
         variableLengthReverseCompare(a, b)
    [] algorithm = "naturalCompare" -> naturalCompare(a, b)
    [] algorithm = "timestampCompare" -> timestampCompare(a, b)
    [] algorithm = "dateCompare" -> dateCompare(a, b)

(***************************************************************************)
(* Transformers.                                                           *)
(***************************************************************************)
\* Variant: the comparison read the wrong way round.
InsertSortedDescending(algorithm, s, x) ==
  LET gt == {j \in DOMAIN s : Compare(algorithm, s[j], x) < 0}
      at == IF gt = {} THEN Len(s) + 1 ELSE Min(gt)
  IN SubSeq(s, 1, at - 1) \o <<x>> \o SubSeq(s, at, Len(s))

\* The place of x among the already sorted s: after every element that
\* does not compare greater than x.
InsertSorted(algorithm, s, x) ==
  LET gt == {j \in DOMAIN s : Compare(algorithm, s[j], x) > 0}
      at == IF gt = {} THEN Len(s) + 1 ELSE Min(gt)
  IN SubSeq(s, 1, at - 1) \o <<x>> \o SubSeq(s, at, Len(s))

RECURSIVE SortPrefix(_, _, _)
SortPrefix(algorithm, s, n) ==
  IF n = 0 THEN <<>>
  ELSE InsertSorted(algorithm, SortPrefix(algorithm, s, n - 1), s[n])

\* makeSorter(algorithm)(lines) = lines.sort(algorithm) for a comparator
\* that is consistent on the lines: the host's sort is stable.
makeSorter(algorithm, lines) == SortPrefix(algorithm, lines, Len(lines))

Sign(n) == IF n < 0 THEN -1 ELSE IF n > 0 THEN 1 ELSE 0

\* A consistent comparator in the sense of Array.prototype.sort: reflexive,
\* antisymmetric in sign, and transitive for "equal" and for "less".
IsConsistent(algorithm, lines) ==
  LET E == Range(lines)
      c(a, b) == Sign(Compare(algorithm, a, b))
  IN /\ \A a \in E : c(a, a) = 0
     /\ \A a, b \in E : c(a, b) = -c(b, a)
     /\ \A a, b, d \in E :
          /\ c(a, b) = 0 /\ c(b, d) = 0 => c(a, d) = 0
          /\ c(a, b) < 0 /\ c(b, d) < 0 => c(a, d) < 0
          /\ c(a, b) = 0 /\ c(b, d) < 0 => c(a, d) < 0
          /\ c(a, b) < 0 /\ c(b, d) = 0 => c(a, d) < 0

\* Every order of the first n elements of s.
RECURSIVE PermutationsOfPrefix(_, _)
PermutationsOfPrefix(s, n) ==
  IF n = 0 THEN {<<>>}
  ELSE {SubSeq(p, 1, at) \o <<s[n]>> \o SubSeq(p, at + 1, n - 1) :
          p \in PermutationsOfPrefix(s, n - 1), at \in 0..(n - 1)}

Permutations(s) == PermutationsOfPrefix(s, Len(s))

\* Every array lines.sort(algorithm) may leave: the stable sort, or, with
\* a comparator that is not consistent on the lines, an order the host
\* chooses.
SortOutcomes(algorithm, lines) ==
  IF IsConsistent(algorithm, lines) THEN {makeSorter(algorithm, lines)}
  ELSE Permutations(lines)

\* Array.from(new Set(lines)): a Set iterates in insertion order.
RECURSIVE SetOfPrefix(_, _)
SetOfPrefix(lines, n) ==
  IF n = 0 THEN <<>>
  ELSE LET before == SetOfPrefix(lines, n - 1)
       IN IF lines[n] \in Range(before) THEN before
          ELSE Append(before, lines[n])

\* Variant: only a Line equal to the one right before it is dropped.
RECURSIVE AdjacentPrefix(_, _)
AdjacentPrefix(lines, n) ==
  IF n = 0 THEN <<>>
  ELSE IF n > 1 /\ lines[n] = lines[n - 1] THEN AdjacentPrefix(lines, n - 1)
       ELSE Append(AdjacentPrefix(lines, n - 1), lines[n])

removeAdjacentDuplicates(lines) == AdjacentPrefix(lines, Len(lines))

removeDuplicates(lines) == SetOfPrefix(lines, Len(lines))

\* lines.splice(i, 1), i zero-based.
Splice(lines, i) == SubSeq(lines, 1, i) \o SubSeq(lines, i + 2, Len(lines))

\* Variant: no i-- after the splice, so the Line that moved into place i
\* is never looked at.
RECURSIVE removeBlanksSkipping(_, _)
removeBlanksSkipping(lines, i) ==
  IF ~(i < Len(lines)) THEN lines
  ELSE IF TrimIsEmpty(lines[i + 1])
       THEN removeBlanksSkipping(Splice(lines, i), i + 1)
       ELSE removeBlanksSkipping(lines, i + 1)

\* The loop of removeBlanks from index i on: after a splice, i-- and the
\* loop's ++i leave i where it was.
RECURSIVE removeBlanksFrom(_, _)
removeBlanksFrom(lines, i) ==
  IF ~(i < Len(lines)) THEN lines
  ELSE IF TrimIsEmpty(lines[i + 1]) THEN removeBlanksFrom(Splice(lines, i), i)
       ELSE removeBlanksFrom(lines, i + 1)

removeBlanks(lines) == removeBlanksFrom(lines, 0)

\* Variant: two assignments in a row instead of the destructuring swap.
SwapAtOverwriting(lines, i, rand) ==
  [lines EXCEPT ![i + 1] = lines[rand + 1]]

\* [lines[i], lines[rand]] = [lines[rand], lines[i]], zero-based.
SwapAt(lines, i, rand) ==
  [lines EXCEPT ![i + 1] = lines[rand + 1], ![rand + 1] = lines[i + 1]]

\* lines.join('\n')
RECURSIVE JoinPrefix(_, _)
JoinPrefix(lines, n) ==
  IF n = 0 THEN <<>>
  ELSE IF n = 1 THEN lines[1]
       ELSE JoinPrefix(lines, n - 1) \o <<NewLine>> \o lines[n]

Join(lines) == JoinPrefix(lines, Len(lines))

\* The lines of a text: the host's document model splits at '\n', and the
\* empty text is one empty line.
RECURSIVE SplitLines(_)
SplitLines(text) ==
  LET at == IndexOf(text, NewLine)
  IN IF at < 0 THEN <<text>>
     ELSE <<SubSeq(text, 1, at)>> \o SplitLines(SubSeq(text, at + 2, Len(text)))

Sorter(algorithm) == [kind |-> "makeSorter", algorithm |-> algorithm]
Reducer(kind) == [kind |-> kind, algorithm |-> "none"]

Commands ==
  {"sortNormal", "sortUnique", "sortReverse", "sortCaseInsensitive",
   "sortCaseInsensitiveUnique", "sortLineLength", "sortLineLengthReverse",
   "sortVariableLength", "sortVariableLengthReverse", "sortNatural",
   "sortShuffle", "removeDuplicateLines", "timestamp", "sortDate"}

transformerSequences(cmd) ==
  CASE cmd = "sortNormal" -> <<Sorter("default")>>
    [] cmd = "sortUnique" -> <<Sorter("default"), Reducer("removeDuplicates")>>
    [] cmd = "sortReverse" -> <<Sorter("reverseCompare")>>
    [] cmd = "sortCaseInsensitive" -> <<Sorter("caseInsensitiveCompare")>>
    [] cmd = "sortCaseInsensitiveUnique" ->
         <<Sorter("caseInsensitiveCompare"), Reducer("removeDuplicates")>>
    [] cmd = "sortLineLength" -> <<Sorter("lineLengthCompare")>>
    [] cmd = "sortLineLengthReverse" -> <<Sorter("lineLengthReverseCompare")>>
    [] cmd = "sortVariableLength" -> <<Sorter("variableLengthCompare")>>
    [] cmd = "sortVariableLengthReverse" ->
         <<Sorter("variableLengthReverseCompare")>>
    [] cmd = "sortNatural" -> <<Sorter("naturalCompare")>>
    [] cmd = "sortShuffle" -> <<Reducer("shuffleSorter")>>
    [] cmd = "removeDuplicateLines" -> <<Reducer("removeDuplicates")>>
    [] cmd = "timestamp" -> <<Sorter("timestampCompare")>>
    [] cmd = "sortDate" -> <<Sorter("dateCompare")>>

\* Every array one transformer may return.
TransformOutcomes(transformer, s) ==
  CASE transformer.kind = "makeSorter" ->
         SortOutcomes(transformer.algorithm, s)
    [] transformer.kind = "removeDuplicates" -> {removeDuplicates(s)}
    [] transformer.kind = "shuffleSorter" -> Permutations(s)

\* transformers.reduce((currentLines, transform) => transform(currentLines),
\* lines) over the first n transformers: every array it may return.
RECURSIVE ReduceOutcomes(_, _, _)
ReduceOutcomes(transformers, n, s) ==
  IF n = 0 THEN {s}
  ELSE UNION {TransformOutcomes(transformers[n], r) :
                r \in ReduceOutcomes(transformers, n - 1, s)}

(***************************************************************************)
(* The editor and one invocation of a command.                             *)
(***************************************************************************)
VARIABLES
  activeTextEditor,  \* vscode.window.activeTextEditor is defined
  document,          \* textEditor.document, a sequence of Lines
  selection,         \* textEditor.selection
  config,            \* getConfiguration('sortLines')
  command,           \* the exported command invoked
  pc,                \* where the invocation stands
  startLine,         \* sortLines' startLine
  endLine,           \* sortLines' endLine
  lines,             \* sortLines' lines, the accumulator of the reduce
  step,              \* position of the next transformer of the sequence
  i,                 \* shuffleSorter's i
  errors,            \* showErrorMessage calls, in order, by condition
  edits,             \* editBuilder.replace requests, in order
  intlCollator,      \* the module's collator has been constructed
  fnA, fnB,          \* operands of a comparator or extractor called alone
  fnName, fnResult,  \* the function called alone, and what it returned
  seqIn,             \* array handed to a transformer sequence called alone
  seqName, seqOut    \* the sequence called alone, and what it returned

editorVars ==
  <<activeTextEditor, document, selection, config, command, pc, startLine,
    endLine, lines, step, i, errors, edits, intlCollator>>
fnVars == <<fnA, fnB, fnName, fnResult>>
seqVars == <<seqIn, seqName, seqOut>>
vars == <<editorVars, fnVars, seqVars>>

\* Lines of the Documents: "", " ", "<a=" and "<B".
DocLines == {<<>>, <<32>>, <<60, 97, 61>>, <<60, 66>>}

SeqsUpTo(S, n) == UNION {[1..m -> S] : m \in 0..n}

Documents == SeqsUpTo(DocLines, MaxLines) \ {<<>>}

\* selection.isSingleLine
isSingleLine(sel) == sel.startLine = sel.endLine

\* The selections a Document admits: an empty selection is a caret, and a
\* selection within one line that is not empty needs a character to hold.
Selections(doc) ==
  {sel \in [startLine : 0..(Len(doc) - 1), endLine : 0..(Len(doc) - 1),
            isEmpty : BOOLEAN] :
     /\ sel.startLine <= sel.endLine
     /\ sel.isEmpty => isSingleLine(sel)
     /\ ~sel.isEmpty /\ isSingleLine(sel) => Len(doc[sel.startLine + 1]) > 0}

NoSelection == [startLine |-> 0, endLine |-> 0, isEmpty |-> TRUE]

Configs == [sortEntireFile : BOOLEAN, filterBlankLines : BOOLEAN]

FnIdle ==
  /\ fnA = <<>> /\ fnB = <<>> /\ fnName = "none" /\ fnResult = 0

SeqIdle ==
  /\ seqIn = <<>> /\ seqName = "none" /\ seqOut = <<>>

Init ==
  /\ activeTextEditor \in BOOLEAN
  /\ IF activeTextEditor
     THEN /\ document \in Documents
          /\ selection \in Selections(document)
     ELSE /\ document = <<>>
          /\ selection = NoSelection
  /\ config \in Configs
  /\ command = "none"
  /\ pc = "idle"
  /\ startLine = 0 /\ endLine = 0 /\ lines = <<>> /\ step = 0 /\ i = 0
  /\ errors = <<>> /\ edits = <<>>
  /\ intlCollator = FALSE
  /\ FnIdle /\ SeqIdle

\* Variant: whole-document mode taken whenever sortEntireFile is set.
sortActiveSelectionWholeFileFirst(hasEditor, sel, lineCount, sortEntireFile) ==
  IF ~hasEditor
  THEN [errors |-> <<"NoActiveTarget">>, span |-> <<>>]
  ELSE LET shown == IF sel.isEmpty THEN <<"EmptySelection">> ELSE <<>>
       IN IF sortEntireFile
          THEN [errors |-> shown, span |-> <<0, lineCount - 1>>]
          ELSE IF isSingleLine(sel)
               THEN [errors |-> Append(shown, "SingleLineSelection"),
                     span |-> <<>>]
               ELSE [errors |-> shown, span |-> <<sel.startLine, sel.endLine>>]

\* The decision of sortActiveSelection: the errors it shows, in order, and
\* the span it hands to sortLines (<<>> when it returns undefined).
sortActiveSelectionOutcome(hasEditor, sel, lineCount, sortEntireFile) ==
  IF ~hasEditor
  THEN [errors |-> <<"NoActiveTarget">>, span |-> <<>>]
  ELSE LET shown == IF sel.isEmpty THEN <<"EmptySelection">> ELSE <<>>
       IN IF sel.isEmpty /\ sortEntireFile
          THEN [errors |-> shown, span |-> <<0, lineCount - 1>>]
          ELSE IF isSingleLine(sel)
               THEN [errors |-> Append(shown, "SingleLineSelection"),
                     span |-> <<>>]
               ELSE [errors |-> shown, span |-> <<sel.startLine, sel.endLine>>]

\* A command is invoked: sortActiveSelection up to its return or its call
\* of sortLines.
SortActiveSelection ==
  /\ pc = "idle"
  /\ \E cmd \in Commands : command' = cmd
  /\ LET o == sortActiveSelectionOutcome(activeTextEditor, selection,
                                         Len(document), config.sortEntireFile)
     IN /\ errors' = o.errors
        /\ IF o.span = <<>>
           THEN /\ pc' = "done"
                /\ UNCHANGED <<startLine, endLine>>
           ELSE /\ pc' = "sortLines"
                /\ startLine' = o.span[1]
                /\ endLine' = o.span[2]
  /\ UNCHANGED <<activeTextEditor, document, selection, config,
                 lines, step, i, edits, intlCollator, fnVars, seqVars>>

\* The lines sortLines collects: lineAt(startLine..endLine).text, without
\* the blank ones when filterBlankLines is set.
CollectLines(doc, first, last, filterBlankLines) ==
  LET collected == SubSeq(doc, first + 1, last + 1)
  IN IF filterBlankLines THEN removeBlanks(collected) ELSE collected

SortLinesCollect ==
  /\ pc = "sortLines"
  /\ lines' = CollectLines(document, startLine, endLine,
                           config.filterBlankLines)
  /\ step' = 1
  /\ pc' = "reduce"
  /\ UNCHANGED <<activeTextEditor, document, selection, config, command,
                 startLine, endLine, i, errors, edits, intlCollator,
                 fnVars, seqVars>>

Pending ==
  /\ pc = "reduce"
  /\ step <= Len(transformerSequences(command))

Transformer == transformerSequences(command)[step]

TransformSort ==
  /\ Pending
  /\ Transformer.kind = "makeSorter"
  /\ \E sorted \in SortOutcomes(Transformer.algorithm, lines) : lines' = sorted
  /\ intlCollator' =
       (intlCollator \/ (Transformer.algorithm = "naturalCompare"
                         /\ Len(lines) > 1))
  /\ step' = step + 1
  /\ UNCHANGED <<activeTextEditor, document, selection, config, command, pc,
                 startLine, endLine, i, errors, edits, fnVars, seqVars>>

TransformRemoveDuplicates ==
  /\ Pending
  /\ Transformer.kind = "removeDuplicates"
  /\ lines' = removeDuplicates(lines)
  /\ step' = step + 1
  /\ UNCHANGED <<activeTextEditor, document, selection, config, command, pc,
                 startLine, endLine, i, errors, edits, intlCollator,
                 fnVars, seqVars>>

ShuffleEnter ==
  /\ Pending
  /\ Transformer.kind = "shuffleSorter"
  /\ i' = Len(lines) - 1
  /\ pc' = "shuffle"
  /\ UNCHANGED <<activeTextEditor, document, selection, config, command,
                 startLine, endLine, lines, step, errors, edits, intlCollator,
                 fnVars, seqVars>>

\* Math.floor(Math.random() * (i + 1)) is any index of 0..i.
ShuffleSwap ==
  /\ pc = "shuffle"
  /\ i > 0
  /\ \E rand \in 0..i : lines' = SwapAt(lines, i, rand)
  /\ i' = i - 1
  /\ UNCHANGED <<activeTextEditor, document, selection, config, command, pc,
                 startLine, endLine, step, errors, edits, intlCollator,
                 fnVars, seqVars>>

ShuffleReturn ==
  /\ pc = "shuffle"
  /\ ~(i > 0)
  /\ step' = step + 1
  /\ pc' = "reduce"
  /\ UNCHANGED <<activeTextEditor, document, selection, config, command,
                 startLine, endLine, lines, i, errors, edits, intlCollator,
                 fnVars, seqVars>>

\* Variant: the end column taken from the first line of the range.
EditRequestToStartLineEnd(doc, first, last, transformed) ==
  [startLine |-> first, startCharacter |-> 0, endLine |-> last,
   endCharacter |-> Len(doc[first + 1]), text |-> Join(transformed)]

\* new vscode.Range(startLine, 0, endLine, lineAt(endLine).text.length) and
\* the text that replaces it.
EditRequest(doc, first, last, transformed) ==
  [startLine |-> first, startCharacter |-> 0, endLine |-> last,
   endCharacter |-> Len(doc[last + 1]), text |-> Join(transformed)]

SortLinesEdit ==
  /\ pc = "reduce"
  /\ step > Len(transformerSequences(command))
  /\ edits' = Append(edits, EditRequest(document, startLine, endLine, lines))
  /\ pc' = "edit"
  /\ UNCHANGED <<activeTextEditor, document, selection, config, command,
                 startLine, endLine, lines, step, i, errors, intlCollator,
                 fnVars, seqVars>>

\* The host applies the edit: the lines of the range, whole lines from
\* column 0 to the end of the last one, give way to the lines of the text.
ApplyEdit(doc, edit) ==
  SubSeq(doc, 1, edit.startLine) \o SplitLines(edit.text)
    \o SubSeq(doc, edit.endLine + 2, Len(doc))

HostApplyEdit ==
  /\ pc = "edit"
  /\ document' = ApplyEdit(document, edits[Len(edits)])
  /\ pc' = "done"
  /\ UNCHANGED <<activeTextEditor, selection, config, command, startLine,
                 endLine, lines, step, i, errors, edits, intlCollator,
                 fnVars, seqVars>>

Next ==
  \/ SortActiveSelection
  \/ SortLinesCollect
  \/ TransformSort
  \/ TransformRemoveDuplicates
  \/ ShuffleEnter
  \/ ShuffleSwap
  \/ ShuffleReturn
  \/ SortLinesEdit
  \/ HostApplyEdit

Spec == Init /\ [][Next]_vars
(***************************************************************************)
(* The comparators and the key extractor, called alone on two Lines.       *)
(***************************************************************************)
\* Lines of 'a' and '=' up to MaxKeyLen characters.
KeyLines == SeqsUpTo({97, EqualsSign}, MaxKeyLen)

\* p times 'x', then '<', n times '-', then the character c.
PaddedLine(p, n, c) ==
  [j \in 1..(p + n + 2) |->
     IF j <= p THEN 120
     ELSE IF j = p + 1 THEN LessThanSign
     ELSE IF j <= p + 1 + n THEN 45
     ELSE c]

\* Lines with a '<': the last character falls inside or outside the
\* windows of timestampCompare and dateCompare, as the padding has it.
WindowLines ==
  {PaddedLine(p, n, c) : p \in 0..1, n \in 0..MaxPad, c \in {49, 50}}

\* "A", "a2", "a10", "<1<" and "<<1".
OtherLines ==
  {<<65>>, <<97, 50>>, <<97, 49, 48>>, <<60, 49, 60>>, <<60, 60, 49>>}

FnLines == KeyLines \cup WindowLines \cup OtherLines

EditorIdle ==
  /\ activeTextEditor = FALSE /\ document = <<>> /\ selection = NoSelection
  /\ config = [sortEntireFile |-> FALSE, filterBlankLines |-> FALSE]
  /\ command = "none" /\ pc = "idle"
  /\ startLine = 0 /\ endLine = 0 /\ lines = <<>> /\ step = 0 /\ i = 0
  /\ errors = <<>> /\ edits = <<>> /\ intlCollator = FALSE

FnInit ==
  /\ EditorIdle /\ SeqIdle
  /\ fnA \in FnLines
  /\ fnB \in FnLines
  /\ fnName = "none"
  /\ fnResult = 0

CallCompare ==
  /\ fnName = "none"
  /\ \E algorithm \in Algorithms :
       /\ fnName' = algorithm
       /\ fnResult' = Compare(algorithm, fnA, fnB)
  /\ UNCHANGED <<fnA, fnB, editorVars, seqVars>>

CallGetVariableCharacters ==
  /\ fnName = "none"
  /\ fnName' = "getVariableCharacters"
  /\ fnResult' = getVariableCharacters(fnA)
  /\ UNCHANGED <<fnA, fnB, editorVars, seqVars>>

FnNext == CallCompare \/ CallGetVariableCharacters

FnSpec == FnInit /\ [][FnNext]_vars

(***************************************************************************)
(* The transformer sequences, called alone on an array of Lines.           *)
(***************************************************************************)
\* "a", "ab", "b", "c" and "B".
SeqLines == {<<97>>, <<97, 98>>, <<98>>, <<99>>, <<66>>}

SeqInit ==
  /\ EditorIdle /\ FnIdle
  /\ seqIn \in SeqsUpTo(SeqLines, MaxSeqLen)
  /\ seqName = "none"
  /\ seqOut = <<>>

CallTransformers ==
  /\ seqName = "none"
  /\ \E cmd \in Commands :
       /\ seqName' = cmd
       /\ seqOut' \in ReduceOutcomes(transformerSequences(cmd),
                                     Len(transformerSequences(cmd)), seqIn)
  /\ UNCHANGED <<seqIn, editorVars, fnVars>>

SeqNext == CallTransformers

SeqSpec == SeqInit /\ [][SeqNext]_vars
(***************************************************************************)
(* Properties.                                                             *)
(***************************************************************************)
\* The invocation has passed the Range Resolver.
Resolved == pc # "idle"

\* The Range Resolver accepts: whole-document mode on a caret, or a
\* selection over two or more lines.
Accepted ==
  /\ activeTextEditor
  /\ \/ selection.isEmpty /\ config.sortEntireFile
     \/ selection.startLine # selection.endLine

\* The lines of the resolved Span, as the Document holds them.
SpanLines == SubSeq(document, startLine + 1, endLine + 1)

IsBlank(line) == \A j \in DOMAIN line : IsWhiteSpace(line[j])
NotBlank(line) == ~IsBlank(line)

\* How often x occurs in s.
Count(s, x) == Cardinality({j \in DOMAIN s : s[j] = x})

SameBag(s, r) ==
  /\ Len(s) = Len(r)
  /\ \A x \in Range(s) \cup Range(r) : Count(s, x) = Count(r, x)

\* C1: an invocation with an active editor, an empty selection and
\* sortEntireFile off reports exactly one rejection, EmptySelection, and
\* issues no write.
C1_EmptySelectionOnly ==
  (Resolved /\ activeTextEditor /\ selection.isEmpty
     /\ ~config.sortEntireFile)
    => /\ errors = <<"EmptySelection">>
       /\ edits = <<>>
       /\ pc = "done"

\* C2: an invocation with an active editor, an empty selection and
\* sortEntireFile on resolves to the Span [0, lineCount - 1] and surfaces
\* no error.
C2_WholeDocumentNoError ==
  (Resolved /\ activeTextEditor /\ selection.isEmpty
     /\ config.sortEntireFile)
    => /\ errors = <<>>
       /\ pc \in {"sortLines", "reduce", "shuffle", "edit"}
            => startLine = 0 /\ endLine = Len(document) - 1

\* C3: whatever sortEntireFile is, no active editor gives the rejection
\* NoActiveTarget and no write; a selection that is not empty and lies within
\* one line gives the rejection SingleLineSelection and no write; a selection
\* over two or more lines gives the Span [selectionStartLine,
\* selectionEndLine] and no rejection.
C3_RemainingResolverInputs ==
  Resolved =>
    /\ ~activeTextEditor
         => errors = <<"NoActiveTarget">> /\ edits = <<>> /\ pc = "done"
    /\ (activeTextEditor /\ ~selection.isEmpty /\ isSingleLine(selection))
         => errors = <<"SingleLineSelection">> /\ edits = <<>> /\ pc = "done"
    /\ (activeTextEditor /\ selection.startLine < selection.endLine)
         => /\ errors = <<>>
            /\ startLine = selection.startLine
            /\ endLine = selection.endLine
            /\ pc = "done" => Len(edits) = 1

C3_Witness ==
  /\ pc = "done"
  /\ activeTextEditor /\ ~selection.isEmpty /\ isSingleLine(selection)
  /\ config.sortEntireFile
  /\ errors = <<"SingleLineSelection">>

\* u before v in code-unit order: they agree up to a position where u has
\* ended or holds the smaller character.
LexLess(u, v) ==
  \E k \in 1..Len(v) :
    /\ k - 1 <= Len(u)
    /\ \A m \in 1..(k - 1) : u[m] = v[m]
    /\ k <= Len(u) => u[k] < v[k]

\* C4: sortUnique returns a strictly ascending array, hence one without
\* two equal Lines, whose Lines are exactly the Lines of its input.
C4_SortUnique ==
  seqName = "sortUnique" =>
    /\ \A j \in 1..(Len(seqOut) - 1) : LexLess(seqOut[j], seqOut[j + 1])
    /\ \A j, m \in DOMAIN seqOut : seqOut[j] = seqOut[m] => j = m
    /\ Range(seqOut) = Range(seqIn)
    /\ seqIn = <<<<98>>, <<97>>, <<99>>, <<97>>>>
         => seqOut = <<<<97>>, <<98>>, <<99>>>>

C4_Witness ==
  /\ seqName = "sortUnique"
  /\ seqIn = <<<<98>>, <<97>>, <<99>>, <<97>>>>
  /\ seqOut = <<<<97>>, <<98>>, <<99>>>>

\* C5: with filterBlankLines on, the array handed to the first transformer
\* holds no blank Line and holds every Line of the Span that is not blank,
\* in the order of the Span; with the flag off it is the Span's Lines.
C5_BlankLineFilter ==
  (pc = "reduce" /\ step = 1) =>
    IF config.filterBlankLines
    THEN /\ \A j \in DOMAIN lines : NotBlank(lines[j])
         /\ lines = SelectSeq(SpanLines, NotBlank)
    ELSE lines = SpanLines

C5_Witness ==
  /\ pc = "reduce" /\ step = 1
  /\ config.filterBlankLines
  /\ Len(SpanLines) = 3
  /\ IsBlank(SpanLines[1]) /\ IsBlank(SpanLines[2])
  /\ lines = <<SpanLines[3]>>

\* The position of the first occurrence of x in s.
FirstAt(s, x) == Min({j \in DOMAIN s : s[j] = x})

\* C6: removeDuplicates returns each distinct Line of its input exactly
\* once, ordered by first occurrence in the input, inserts nothing, and
\* applied to its own result returns that result.
C6_Deduplicate ==
  seqName = "removeDuplicateLines" =>
    /\ Range(seqOut) = Range(seqIn)
    /\ \A x \in Range(seqIn) : Count(seqOut, x) = 1
    /\ \A j, m \in DOMAIN seqOut :
         j < m => FirstAt(seqIn, seqOut[j]) < FirstAt(seqIn, seqOut[m])
    /\ removeDuplicates(seqOut) = seqOut

C6_Witness ==
  /\ seqName = "removeDuplicateLines"
  /\ seqIn = <<<<98>>, <<97>>, <<98>>, <<97>>>>
  /\ seqOut = <<<<98>>, <<97>>>>

\* The key the claim C7 describes: the Line before its last '=', or the
\* whole Line when it holds no '='.
KeyBeforeLastEquals(line) ==
  IF \E j \in DOMAIN line : line[j] = 61
  THEN LET e == CHOOSE j \in DOMAIN line :
                  /\ line[j] = 61
                  /\ \A m \in (j + 1)..Len(line) : line[m] # 61
       IN [j \in 1..(e - 1) |-> line[j]]
  ELSE line

\* C7: the key of a Line with an '=' is what stands before its last '=',
\* the empty key included; the key of a Line with no '=' is the Line.
C7_VariableKey ==
  fnName = "getVariableCharacters" => fnResult = KeyBeforeLastEquals(fnA)

\* The window the claim C8 describes: up to w characters from the first '<'.
HasLessThan(line) == \E j \in DOMAIN line : line[j] = 60

KeyWindow(line, w) ==
  LET f == CHOOSE j \in DOMAIN line :
             line[j] = 60 /\ \A m \in 1..(j - 1) : line[m] # 60
      n == IF Len(line) - f + 1 < w THEN Len(line) - f + 1 ELSE w
  IN [j \in 1..n |-> line[f + j - 1]]

WindowOrdering(a, b, w) ==
  IF ~HasLessThan(a) \/ ~HasLessThan(b) THEN 0
  ELSE IF KeyWindow(a, w) = KeyWindow(b, w) THEN 0
  ELSE IF LexLess(KeyWindow(a, w), KeyWindow(b, w)) THEN -1 ELSE 1

\* C8: timestampCompare and dateCompare return EQUAL when either Line has
\* no '<', and otherwise the lexicographic comparison of the windows of 30
\* and of 10 characters from the first '<' of each Line, cut at the Line's
\* end; EQUAL exactly when the windows are identical.
C8_WindowComparators ==
  /\ fnName = "timestampCompare" => fnResult = WindowOrdering(fnA, fnB, 30)
  /\ fnName = "dateCompare" => fnResult = WindowOrdering(fnA, fnB, 10)

\* Two Lines that differ only in their 31st character from the '<'.
C8_Witness ==
  /\ fnName = "timestampCompare"
  /\ fnResult = 0
  /\ fnA # fnB
  /\ HasLessThan(fnA) /\ HasLessThan(fnB)
  /\ Len(KeyWindow(fnA, 30)) = 30

\* The array shuffleSorter was handed: sortShuffle has no other transformer.
Handed == CollectLines(document, startLine, endLine, config.filterBlankLines)

ShuffleRunning == pc = "shuffle"
ShuffleReturned == command = "sortShuffle" /\ pc \in {"reduce", "edit"} /\ step = 2

\* One step of the loop of shuffleSorter: i is an index from 1 to the last,
\* the elements at i and at some index of 0..i change places, nothing else
\* moves, and i goes down by one.
ShuffleLoopStep ==
  (ShuffleRunning /\ ShuffleRunning' /\ <<lines, i>>' # <<lines, i>>) =>
    /\ i \in 1..(Len(lines) - 1)
    /\ i' = i - 1
    /\ Len(lines') = Len(lines)
    /\ \E r \in 0..i :
         /\ lines'[i + 1] = lines[r + 1]
         /\ lines'[r + 1] = lines[i + 1]
         /\ \A j \in DOMAIN lines : j \notin {i + 1, r + 1} => lines'[j] = lines[j]

\* The loop starts at the last index and ends when i is no longer above 0.
ShuffleLoopEnds ==
  /\ (~ShuffleRunning /\ ShuffleRunning') => i' = Len(lines) - 1 /\ lines' = lines
  /\ (ShuffleRunning /\ ~ShuffleRunning') => i <= 0 /\ lines' = lines

\* C9: shuffleSorter runs i from the last index down to 1, each step swaps
\* element i with an element at an index of 0..i, after every step and at
\* the end the array has the Lines and the length of the input, and an
\* array of length 0 or 1 is returned unchanged.
C9_ShufflePermutes ==
  /\ [][ShuffleLoopStep /\ ShuffleLoopEnds]_vars
  /\ []((ShuffleRunning \/ ShuffleReturned) =>
          /\ SameBag(lines, Handed)
          /\ Len(Handed) <= 1 => lines = Handed)

C9_Witness ==
  /\ ShuffleReturned
  /\ Len(lines) = 3
  /\ lines[1] = Handed[3] /\ lines[1] # Handed[1]

\* Where the j-th of the Lines ls starts in their join: after the Lines
\* before it and one separator for each.
RECURSIVE OffsetOf(_, _)
OffsetOf(ls, j) ==
  IF j = 1 THEN 0 ELSE OffsetOf(ls, j - 1) + Len(ls[j - 1]) + 1

\* text is the Lines ls, in order, with one '\n' between neighbours.
JoinedByNewLine(text, ls) ==
  IF ls = <<>> THEN text = <<>>
  ELSE /\ Len(text) = OffsetOf(ls, Len(ls)) + Len(ls[Len(ls)])
       /\ \A j \in DOMAIN ls :
            /\ \A m \in DOMAIN ls[j] : text[OffsetOf(ls, j) + m] = ls[j][m]
            /\ j < Len(ls) => text[OffsetOf(ls, j) + Len(ls[j]) + 1] = 10

\* The state part of C10: at most one request, one once an accepted
\* invocation is done, none when rejected, and the request as claimed.
C10_Requested ==
  /\ Len(edits) <= 1
  /\ (pc = "done" /\ Accepted) => Len(edits) = 1
  /\ ~Accepted => edits = <<>>
  /\ edits # <<>> => pc \in {"edit", "done"}
  /\ pc = "edit" =>
       /\ lines \in ReduceOutcomes(transformerSequences(command),
                                   Len(transformerSequences(command)), Handed)
       /\ edits[1].startLine = startLine /\ edits[1].startCharacter = 0
       /\ edits[1].endLine = endLine
       /\ edits[1].endCharacter = Len(document[endLine + 1])
       /\ JoinedByNewLine(edits[1].text, lines)

\* The step part of C10: once the request is issued nothing is transformed.
C10_AfterRequest ==
  edits # <<>> => lines' = lines /\ step' = step /\ edits' = edits

\* C10: an accepted invocation issues exactly one write request, after the
\* blank-line filter and every transformer of the command have been applied
\* in order; the request replaces (startLine, 0)..(endLine, length of the
\* Document's Line endLine) by the transformed Lines joined by '\n', and
\* nothing is transformed once it is issued.
C10_SingleWrite == []C10_Requested /\ [][C10_AfterRequest]_vars

C10_Witness ==
  /\ pc = "done"
  /\ Len(edits) = 1
  /\ command = "sortCaseInsensitiveUnique"
  /\ config.filterBlankLines
  /\ edits[1].startLine = 1 /\ edits[1].endLine = 2
  /\ edits[1].endCharacter = 3
  /\ NewLine \in Range(edits[1].text)
====
